---------------------------- MODULE Spec2Model ----------------------------
(***************************************************************************)
(* Model of the merge path of auto-claude/workspace.py.                    *)
(*                                                                         *)
(* Part 1 (specifications Spec and SpecLive): concurrent invocations of    *)
(* merge_existing_build for ONE spec name.  Each invocation resolves the   *)
(* worktree, takes the MergeLock (__enter__: exists-check, read, unlink,   *)
(* write, each a separate file-system call and therefore a separate step), *)
(* runs _try_smart_merge_inner, releases the lock (__exit__) and then      *)
(* dispatches on the smart-merge result.                                   *)
(***************************************************************************)
EXTENDS Integers, Sequences, FiniteSets, TLC

(***************************************************************************)
(* Bounds of the model.                                                    *)
(***************************************************************************)
NumProcs == 2          \* concurrent invocations for the same spec name
MaxTime == 301         \* the clock stops here
MaxCrashes == 1        \* invocations that may be killed

(***************************************************************************)
(* Program constants.                                                      *)
(***************************************************************************)
MERGE_LOCK_TIMEOUT == 300
MAX_FILE_LINES_FOR_AI == 5000
MAX_PARALLEL_AI_MERGES == 5

Procs == 1..NumProcs
\* The clock advances in steps that make a lock exactly 300 s old (not
\* stale) and 301 s old (stale).
TickDeltas == {MERGE_LOCK_TIMEOUT, MERGE_LOCK_TIMEOUT + 1}

NoFile == [kind |-> "absent"]
Corrupt == [kind |-> "corrupt"]
LockData(pid, ts) == [kind |-> "data", pid |-> pid, timestamp |-> ts]

\* What _try_smart_merge_inner can hand back (or raise).
InnerOutcomes ==
    { "ai_resolved",     \* success, stats.ai_assisted > 0: results staged
      "success_no_ai",   \* success, stats.ai_assisted absent or 0
      "partial",         \* git conflicts left: success False, git_conflicts True
      "semantic",        \* preview found conflicts needing a human
      "none",            \* an Exception inside: caught, returns None
      "interrupt" }      \* a BaseException (KeyboardInterrupt): propagates

VARIABLES
    now,             \* time.time()
    lockFile,        \* <project>/.auto-claude/.locks/merge-<spec>.lock
    worktreeExists,  \* <project>/.worktrees/<spec>/ exists
    alive,           \* alive[pid]: a process with this pid exists
    pc,              \* where each invocation is
    acquired,        \* MergeLock.acquired of the invocation's lock object
    smartResult,     \* what _try_smart_merge returns to merge_existing_build
    reclaimMsg,      \* the "Removing ... merge lock" line __enter__ printed
    innerRan,        \* the invocation entered _try_smart_merge_inner
    staged,          \* the invocation's pipeline wrote and staged files
    mergeCalls,      \* calls of manager.merge_worktree by the invocation
    ret,             \* merge_existing_build's return value
    crashes          \* invocations killed so far

lockVars == <<now, lockFile, worktreeExists, alive, pc, acquired, smartResult,
              reclaimMsg, innerRan, staged, mergeCalls, ret, crashes>>

VARIABLES
    task,            \* the ParallelMergeTask handed to the worker
    clientAvailable, \* _create_async_claude_client() returns a client
    wpc,             \* where _merge_file_with_ai_async is
    mergedContent,   \* its local merged_content
    hasConflicts,    \* its local has_conflicts
    permits,         \* free slots of the asyncio.Semaphore
    modelCalls,      \* calls of _async_ai_call made by the worker
    result,          \* the ParallelMergeResult it returned
    transportError,  \* str(e) of an exception the client raised, or "none"
    merged           \* its local merged: the body made of the last response

workerVars == <<task, clientAvailable, wpc, mergedContent, hasConflicts,
                permits, modelCalls, result, transportError, merged>>

VARIABLES
    pool,            \* the state of one call of _run_parallel_merges
    orch,            \* the state of one call of _resolve_git_conflicts_with_ai
    smart,           \* the state of one call of _try_smart_merge_inner
    val,             \* one call of _validate_merged_syntax
    disc             \* one call of discard_existing_build

\* what the steps of the lock part and of the single worker leave alone
nonLockVars == <<workerVars, pool, orch, smart, val, disc>>
nonWorkerVars == <<lockVars, pool, orch, smart, val, disc>>

vars == <<lockVars, workerVars, pool, orch, smart, val, disc>>

--------------------------------------------------------------------------
\* _is_process_running: True when os.kill(pid, 0) succeeds; False on any
\* OSError, that is when there is no such process (ProcessLookupError) and
\* also when the caller is not permitted to signal it (PermissionError: the
\* process belongs to another user)
IsProcessRunning(pid, permitted) == alive[pid] /\ permitted

\* Variant of the staleness decision without the age test: only a dead pid
\* makes a lock removable.
StaleDecisionNoAge(lock_time, lock_pid, t, permitted) ==
    IF lock_pid # 0 /\ ~IsProcessRunning(lock_pid, permitted) THEN "orphaned"
    ELSE "error"

\* Variant of the staleness decision that never removes a lock.
StaleDecisionNever(lock_time, lock_pid, t, permitted) == "error"

\* MergeLock.__enter__, the staleness decision on a parsed lock file:
\* "stale" (older than the timeout: unlink), "orphaned" (its pid is not
\* running: unlink) or "error" (MergeLockError)
StaleDecision(lock_time, lock_pid, t, permitted) ==
    IF t - lock_time > MERGE_LOCK_TIMEOUT THEN "stale"
    ELSE IF lock_pid # 0 /\ ~IsProcessRunning(lock_pid, permitted) THEN "orphaned"
    ELSE "error"

\* the per-invocation parts of the initial state
ProcInit ==
    /\ pc = [p \in Procs |-> "start"]
    /\ acquired = [p \in Procs |-> FALSE]
    /\ smartResult = [p \in Procs |-> "unset"]
    /\ reclaimMsg = [p \in Procs |-> "none"]
    /\ innerRan = [p \in Procs |-> FALSE]
    /\ staged = [p \in Procs |-> FALSE]
    /\ mergeCalls = [p \in Procs |-> 0]
    /\ ret = [p \in Procs |-> "unset"]
    /\ crashes = 0

LockInit ==
    /\ now = 0
    /\ lockFile = NoFile
    /\ worktreeExists \in BOOLEAN
    /\ alive = [q \in Procs |-> TRUE]
    /\ ProcInit

\* The invocation ends at the return site `where`: its process exits and
\* its memory (the lock object, the result dict) is gone.
Finish(p, where, value) ==
    /\ pc' = [pc EXCEPT ![p] = where]
    /\ ret' = [ret EXCEPT ![p] = value]
    /\ alive' = [alive EXCEPT ![p] = FALSE]
    /\ acquired' = [acquired EXCEPT ![p] = FALSE]
    /\ smartResult' = [smartResult EXCEPT ![p] = "unset"]
    /\ reclaimMsg' = [reclaimMsg EXCEPT ![p] = "none"]

\* the invocation goes on to `where`
Goto(p, where) ==
    /\ pc' = [pc EXCEPT ![p] = where]
    /\ UNCHANGED <<ret, alive>>

\* Variant of the entry point that does not look for the worktree
StartWithoutWorktreeTest(p) ==
    /\ UNCHANGED nonLockVars
    /\ pc[p] = "start"
    /\ Goto(p, "enter_check")
    /\ UNCHANGED <<acquired, smartResult, reclaimMsg>>
    /\ UNCHANGED <<now, lockFile, worktreeExists, innerRan, staged,
                   mergeCalls, crashes>>

\* merge_existing_build, lines 167-175: no worktree, return False
Start(p) ==
    /\ UNCHANGED nonLockVars
    /\ pc[p] = "start"
    /\ IF ~worktreeExists
       THEN Finish(p, "ret_no_build", "false")
       ELSE /\ Goto(p, "enter_check")
            /\ UNCHANGED <<acquired, smartResult, reclaimMsg>>
    /\ UNCHANGED <<now, lockFile, worktreeExists, innerRan, staged,
                   mergeCalls, crashes>>

\* MergeLock.__enter__: if self.lock_file.exists()
EnterCheck(p) ==
    /\ UNCHANGED nonLockVars
    /\ pc[p] = "enter_check"
    /\ Goto(p, IF lockFile # NoFile THEN "enter_read" ELSE "enter_write")
    /\ UNCHANGED <<now, lockFile, worktreeExists, acquired, smartResult,
                   reclaimMsg, innerRan, staged, mergeCalls, crashes>>

\* MergeLock.__enter__: read_text, json.loads and the staleness decision.
\* A vanished file raises FileNotFoundError, which is neither caught by
\* __enter__ nor by _try_smart_merge nor by merge_existing_build.
EnterRead(p) ==
    /\ UNCHANGED nonLockVars
    /\ pc[p] = "enter_read"
    /\ CASE lockFile = NoFile ->
              Finish(p, "raised", "exception")
         [] lockFile = Corrupt ->
              \* json.JSONDecodeError: the handler unlinks the file
              /\ Goto(p, "enter_unlink")
              /\ UNCHANGED <<acquired, smartResult, reclaimMsg>>
         [] OTHER ->
              \E permitted \in BOOLEAN :
              LET d == StaleDecision(lockFile.timestamp, lockFile.pid, now,
                                     permitted) IN
              IF d # "error"
              THEN /\ Goto(p, "enter_unlink")
                   /\ reclaimMsg' = [reclaimMsg EXCEPT ![p] = d]
                   /\ UNCHANGED <<acquired, smartResult>>
              ELSE \* MergeLockError, caught by _try_smart_merge
                   /\ Goto(p, "after_smart")
                   /\ smartResult' = [smartResult EXCEPT ![p] = "lock_error"]
                   /\ UNCHANGED <<acquired, reclaimMsg>>
    /\ UNCHANGED <<now, lockFile, worktreeExists, innerRan, staged,
                   mergeCalls, crashes>>

\* MergeLock.__enter__: self.lock_file.unlink()
EnterUnlink(p) ==
    /\ UNCHANGED nonLockVars
    /\ pc[p] = "enter_unlink"
    /\ IF lockFile = NoFile
       THEN /\ Finish(p, "raised", "exception")
            /\ UNCHANGED lockFile
       ELSE /\ lockFile' = NoFile
            /\ Goto(p, "enter_write")
            /\ UNCHANGED <<acquired, smartResult, reclaimMsg>>
    /\ UNCHANGED <<now, worktreeExists, innerRan, staged, mergeCalls, crashes>>

\* MergeLock.__enter__: write_text(json.dumps(lock_data)); acquired = True
EnterWrite(p) ==
    /\ UNCHANGED nonLockVars
    /\ pc[p] = "enter_write"
    /\ lockFile' = LockData(p, now)
    /\ acquired' = [acquired EXCEPT ![p] = TRUE]
    /\ Goto(p, "inner")
    /\ UNCHANGED <<now, worktreeExists, smartResult, reclaimMsg, innerRan,
                   staged, mergeCalls, crashes>>

\* _try_smart_merge_inner, run with the lock held
Inner(p) ==
    /\ UNCHANGED nonLockVars
    /\ pc[p] = "inner"
    /\ \E outcome \in InnerOutcomes :
          /\ smartResult' = [smartResult EXCEPT ![p] = outcome]
          /\ staged' = [staged EXCEPT ![p] = outcome \in {"ai_resolved", "partial"}]
    /\ innerRan' = [innerRan EXCEPT ![p] = TRUE]
    /\ reclaimMsg' = [reclaimMsg EXCEPT ![p] = "none"]
    /\ Goto(p, "exit_check")
    /\ UNCHANGED <<now, lockFile, worktreeExists, acquired, mergeCalls, crashes>>

\* where control goes when the with-block is left
AfterExit(p) ==
    IF smartResult[p] = "interrupt"
    THEN Finish(p, "raised", "exception")
    ELSE /\ Goto(p, "after_smart")
         /\ UNCHANGED <<acquired, smartResult, reclaimMsg>>

\* Variant of __exit__ that releases only when the block ended normally
ExitCheckUnlessException(p) ==
    /\ UNCHANGED nonLockVars
    /\ pc[p] = "exit_check"
    /\ IF acquired[p] /\ lockFile # NoFile /\ smartResult[p] # "interrupt"
       THEN /\ Goto(p, "exit_unlink")
            /\ UNCHANGED <<acquired, smartResult, reclaimMsg>>
       ELSE AfterExit(p)
    /\ UNCHANGED <<now, lockFile, worktreeExists, innerRan, staged,
                   mergeCalls, crashes>>

\* MergeLock.__exit__: if self.acquired and self.lock_file.exists()
ExitCheck(p) ==
    /\ UNCHANGED nonLockVars
    /\ pc[p] = "exit_check"
    /\ IF acquired[p] /\ lockFile # NoFile
       THEN /\ Goto(p, "exit_unlink")
            /\ UNCHANGED <<acquired, smartResult, reclaimMsg>>
       ELSE AfterExit(p)
    /\ UNCHANGED <<now, lockFile, worktreeExists, innerRan, staged,
                   mergeCalls, crashes>>

\* MergeLock.__exit__: self.lock_file.unlink().  The file may be gone by now
\* (FileNotFoundError, swallowed); an unlink of a file that is there is taken
\* to succeed (the lock directory stays writable while the merge runs).
ExitUnlink(p) ==
    /\ UNCHANGED nonLockVars
    /\ pc[p] = "exit_unlink"
    /\ lockFile' = NoFile
    /\ AfterExit(p)
    /\ UNCHANGED <<now, worktreeExists, innerRan, staged, mergeCalls, crashes>>

\* manager.merge_worktree(spec_name, delete_after=True, ...): it can only
\* succeed while the worktree exists, and then removes it
MergeWorktreeResults == IF worktreeExists THEN BOOLEAN ELSE {FALSE}

\* merge_existing_build, lines 201-253: dispatch on the smart-merge result
AfterSmart(p) ==
    /\ UNCHANGED nonLockVars
    /\ pc[p] = "after_smart"
    /\ CASE smartResult[p] = "ai_resolved" ->
              \* results are staged: remove the worktree (best effort)
              /\ \E removed \in BOOLEAN :
                    worktreeExists' = (worktreeExists /\ ~removed)
              /\ Finish(p, "ret_staged", "true")
              /\ UNCHANGED mergeCalls
         [] smartResult[p] = "success_no_ai" ->
              \* "No git conflicts, do standard git merge"
              /\ mergeCalls' = [mergeCalls EXCEPT ![p] = @ + 1]
              /\ \E ok \in MergeWorktreeResults :
                    IF ok
                    THEN /\ worktreeExists' = FALSE
                         /\ Finish(p, "ret_merged", "true")
                    ELSE /\ Goto(p, "fallback")
                         /\ UNCHANGED <<worktreeExists, acquired, smartResult,
                                        reclaimMsg>>
         [] smartResult[p] = "partial" ->
              /\ Finish(p, "ret_conflicts", "false")
              /\ UNCHANGED <<worktreeExists, mergeCalls>>
         [] OTHER ->
              \* None, semantic conflicts, or the lock error's result
              \* {"success": False, "error": ..., "conflicts": []}:
              \* no branch returns, control reaches the fallback
              /\ Goto(p, "fallback")
              /\ UNCHANGED <<worktreeExists, mergeCalls, acquired, smartResult,
                             reclaimMsg>>
    /\ UNCHANGED <<now, lockFile, innerRan, staged, crashes>>

\* merge_existing_build, lines 255-277: "Fall back to standard git merge"
Fallback(p) ==
    /\ UNCHANGED nonLockVars
    /\ pc[p] = "fallback"
    /\ mergeCalls' = [mergeCalls EXCEPT ![p] = @ + 1]
    /\ \E ok \in MergeWorktreeResults :
          /\ worktreeExists' = (worktreeExists /\ ~ok)
          /\ Finish(p, "ret_fallback", IF ok THEN "true" ELSE "false")
    /\ UNCHANGED <<now, lockFile, innerRan, staged, crashes>>

\* pcs at which the invocation is inside the with-block of _try_smart_merge
HoldingPcs == {"inner", "exit_check", "exit_unlink"}

\* the process of invocation p is killed: its memory is gone
Killed(p) ==
    /\ crashes < MaxCrashes
    /\ crashes' = crashes + 1
    /\ pc' = [pc EXCEPT ![p] = "crashed"]
    /\ alive' = [alive EXCEPT ![p] = FALSE]
    /\ acquired' = [acquired EXCEPT ![p] = FALSE]
    /\ smartResult' = [smartResult EXCEPT ![p] = "unset"]
    /\ reclaimMsg' = [reclaimMsg EXCEPT ![p] = "none"]
    /\ ret' = [ret EXCEPT ![p] = "killed"]

\* The process is killed (SIGKILL) inside the with-block: nothing runs
\* __exit__, the lock file stays.
Crash(p) ==
    /\ UNCHANGED nonLockVars
    /\ pc[p] \in HoldingPcs
    /\ Killed(p)
    /\ UNCHANGED <<now, lockFile, worktreeExists, innerRan, staged, mergeCalls>>

\* The process is killed inside write_text, after the file was opened
\* (created or truncated) and before the JSON text reached it.
CrashInWrite(p) ==
    /\ UNCHANGED nonLockVars
    /\ pc[p] = "enter_write"
    /\ Killed(p)
    /\ lockFile' = Corrupt
    /\ UNCHANGED <<now, worktreeExists, innerRan, staged, mergeCalls>>

\* The operating system hands the pid of a killed lock holder to an
\* unrelated process.  (Only while the clock can still make that lock
\* older than the timeout.)
PidReuse(p) ==
    /\ UNCHANGED nonLockVars
    /\ pc[p] = "crashed"
    /\ ~alive[p]
    /\ lockFile.kind = "data"
    /\ lockFile.pid = p
    /\ lockFile.timestamp + MERGE_LOCK_TIMEOUT < MaxTime
    /\ alive' = [alive EXCEPT ![p] = TRUE]
    /\ UNCHANGED <<now, lockFile, worktreeExists, pc, acquired, smartResult,
                   reclaimMsg, innerRan, staged, mergeCalls, ret, crashes>>

ReturnedPcs == {"ret_no_build", "ret_staged", "ret_merged", "ret_conflicts",
                "ret_fallback", "raised"}

\* The operator runs "--merge" again: a new invocation, a new lock object
Restart(p) ==
    /\ UNCHANGED nonLockVars
    /\ pc[p] \in ReturnedPcs
    /\ pc' = [pc EXCEPT ![p] = "start"]
    /\ alive' = [alive EXCEPT ![p] = TRUE]
    /\ innerRan' = [innerRan EXCEPT ![p] = FALSE]
    /\ staged' = [staged EXCEPT ![p] = FALSE]
    /\ mergeCalls' = [mergeCalls EXCEPT ![p] = 0]
    /\ ret' = [ret EXCEPT ![p] = "unset"]
    /\ UNCHANGED <<now, lockFile, worktreeExists, acquired, smartResult,
                   reclaimMsg, crashes>>

\* time passes; the clock of the model stops at MaxTime
Tick ==
    /\ UNCHANGED nonLockVars
    /\ now < MaxTime
    /\ \E d \in TickDeltas : now' = IF now + d > MaxTime THEN MaxTime ELSE now + d
    /\ UNCHANGED <<lockFile, worktreeExists, alive, pc, acquired, smartResult,
                   reclaimMsg, innerRan, staged, mergeCalls, ret, crashes>>

\* one step of invocation p
Proc(p) ==
    \/ Start(p)
    \/ EnterCheck(p)
    \/ EnterRead(p)
    \/ EnterUnlink(p)
    \/ EnterWrite(p)
    \/ Inner(p)
    \/ ExitCheck(p)
    \/ ExitUnlink(p)
    \/ AfterSmart(p)
    \/ Fallback(p)

--------------------------------------------------------------------------
(***************************************************************************)
(* Part 2 (specification SpecWorker): one call of                          *)
(* _merge_file_with_ai_async on one ParallelMergeTask.  A text is its body *)
(* and the number of newline characters in it; file paths are a stem and a *)
(* suffix.  git merge-file, the syntax check and the model are outside the *)
(* program: the model draws their answers from the answers they can give.  *)
(***************************************************************************)
None == [kind |-> "None"]
Text(body, newlines) == [kind |-> "text", body |-> body, newlines |-> newlines]
EmptyText == Text("", 0)

\* bool(v) of an Optional[str]: None and "" are false
Truthy(v) == v # None /\ v # EmptyText

\* content.count('\n') if content else 0
CountLines(content) == IF Truthy(content) THEN content.newlines ELSE 0

Max(a, b) == IF a >= b THEN a ELSE b

BINARY_EXTENSIONS ==
    { ".png", ".jpg", ".jpeg", ".gif", ".ico", ".webp", ".bmp", ".svg",
      ".pdf", ".doc", ".docx", ".xls", ".xlsx", ".ppt", ".pptx",
      ".zip", ".tar", ".gz", ".rar", ".7z",
      ".exe", ".dll", ".so", ".dylib", ".bin",
      ".mp3", ".mp4", ".wav", ".avi", ".mov", ".mkv",
      ".woff", ".woff2", ".ttf", ".otf", ".eot",
      ".pyc", ".pyo", ".class", ".o", ".obj" }

\* the suffixes of the paths of the model
Suffixes == {".py", ".txt", ".PNG"}

\* str.lower() on a suffix
Lower(suffix) ==
    CASE suffix = ".PNG" -> ".png"
      [] suffix = ".PY" -> ".py"
      [] suffix = ".TXT" -> ".txt"
      [] OTHER -> suffix

FilePath(stem, suffix) == [stem |-> stem, suffix |-> suffix]

\* _is_binary_file: Path(file_path).suffix.lower() in BINARY_EXTENSIONS
IsBinaryFile(file_path) == Lower(file_path.suffix) \in BINARY_EXTENSIONS

\* bodies that compile() rejects
SyntaxErrorBodies == {"bad"}

\* _validate_merged_syntax, is_valid: Python source is compiled, a suffix
\* without a checker is accepted
ValidateMergedSyntax(file_path, content) ==
    IF Lower(file_path.suffix) = ".py"
    THEN content.body \notin SyntaxErrorBodies
    ELSE TRUE

\* the texts a task can carry for the main and the worktree side
SideTexts ==
    { EmptyText, Text("a", 1), Text("b", 1), Text("bad", 1),
      Text("long", MAX_FILE_LINES_FOR_AI),
      Text("unterminated", MAX_FILE_LINES_FOR_AI),
      Text("longer", MAX_FILE_LINES_FOR_AI + 1) }

\* bodies whose last line does not end with a newline character: such a
\* text has one line more than it has newline characters
UnterminatedBodies == {"unterminated"}

\* the merge-base text: None when there is no merge base or the file is not
\* in it
BaseTexts == {None, EmptyText, Text("a", 1), Text("o", 1)}

\* the body of an output of git merge-file that has conflict markers
MarkerBody == "<<<<<<< ======= >>>>>>>"

\* '<<<<<<' in stdout
ContainsMarkers(stdout) == stdout.body = MarkerBody

\* git merge-file -p main base worktree: what it can print and return.
\* Equal sides, or a side equal to the base, merge cleanly; otherwise the
\* changes combine (0), conflict (1) or git fails (255).
GitMergeFile(main, base, worktree) ==
    IF main = worktree
    THEN {[returncode |-> 0, stdout |-> main]}
    ELSE IF main = base
    THEN {[returncode |-> 0, stdout |-> worktree]}
    ELSE IF worktree = base
    THEN {[returncode |-> 0, stdout |-> main]}
    ELSE { [returncode |-> 0,
            stdout |-> Text("combined", Max(main.newlines, worktree.newlines))],
           [returncode |-> 1,
            stdout |-> Text(MarkerBody, main.newlines + worktree.newlines + 3)],
           [returncode |-> 255, stdout |-> EmptyText] }

\* _create_conflict_file_with_git: the (merged_content, has_conflicts) pairs
\* it can return
CreateConflictFileWithGit(main, worktree, base) ==
    IF ~Truthy(base)
    THEN {<<None, FALSE>>}
    ELSE { IF r.returncode > 0 /\ ContainsMarkers(r.stdout)
           THEN <<r.stdout, TRUE>>
           ELSE IF r.returncode = 0
           THEN <<r.stdout, FALSE>>
           ELSE <<None, FALSE>> : r \in GitMergeFile(main, base, worktree) }

\* _heuristic_merge: without a base the worktree text; with one side
\* unchanged against the base the other side; else None
HeuristicMerge(main, worktree, base) ==
    IF base = None THEN worktree
    ELSE IF main = base THEN worktree
    ELSE IF worktree = base THEN main
    ELSE None

\* ParallelMergeResult; the error is "None" when there is none
ParallelMergeResult(merged_content, success, error, was_auto_merged) ==
    [merged_content |-> merged_content, success |-> success,
     error |-> error, was_auto_merged |-> was_auto_merged]

\* what the code gets out of a model response: None (no response, or
\* nothing usable in it) or a merged text
ModelMerges == {None, EmptyText, Text("ai", 1), Text("bad", 1)}

\* the worker is not running
WorkerIdle ==
    /\ task = [file_path |-> FilePath("f", ".txt"), main_content |-> EmptyText,
               worktree_content |-> EmptyText, base_content |-> None]
    /\ clientAvailable = FALSE
    /\ wpc = "idle"
    /\ mergedContent = None
    /\ hasConflicts = FALSE
    /\ permits = MAX_PARALLEL_AI_MERGES
    /\ modelCalls = 0
    /\ result = None
    /\ transportError = "none"
    /\ merged = None

\* a task as _resolve_git_conflicts_with_ai builds it: both sides present
WorkerInit ==
    /\ \E suffix \in Suffixes, main \in SideTexts, worktree \in SideTexts,
          base \in BaseTexts :
          task = [file_path |-> FilePath("f", suffix), main_content |-> main,
                  worktree_content |-> worktree, base_content |-> base]
    /\ clientAvailable \in BOOLEAN
    /\ wpc = "start"
    /\ mergedContent = None
    /\ hasConflicts = FALSE
    /\ permits = MAX_PARALLEL_AI_MERGES
    /\ modelCalls = 0
    /\ result = None
    /\ transportError = "none"
    /\ merged = None

\* return r
WReturn(r) ==
    /\ wpc' = "done"
    /\ result' = r

\* lines 1036-1078: the checks and the native merge before the semaphore
WPreChecks ==
    /\ wpc = "start"
    /\ LET max_lines == Max(CountLines(task.main_content),
                            CountLines(task.worktree_content)) IN
       IF IsBinaryFile(task.file_path)
       THEN /\ WReturn(ParallelMergeResult(None, FALSE, "Binary file - skipped",
                                           FALSE))
            /\ UNCHANGED <<mergedContent, hasConflicts>>
       ELSE IF max_lines > MAX_FILE_LINES_FOR_AI
       THEN /\ WReturn(ParallelMergeResult(None, FALSE, "File too large", FALSE))
            /\ UNCHANGED <<mergedContent, hasConflicts>>
       ELSE IF Truthy(task.base_content)
       THEN \E m \in CreateConflictFileWithGit(task.main_content,
                         task.worktree_content, task.base_content) :
               /\ mergedContent' = m[1]
               /\ hasConflicts' = m[2]
               /\ IF /\ Truthy(m[1]) /\ ~m[2]
                     /\ ValidateMergedSyntax(task.file_path, m[1])
                  THEN WReturn(ParallelMergeResult(m[1], TRUE, "None", TRUE))
                  ELSE wpc' = "semaphore" /\ UNCHANGED result
       ELSE /\ mergedContent' = None
            /\ hasConflicts' = FALSE
            /\ wpc' = "semaphore"
            /\ UNCHANGED result
    /\ UNCHANGED <<task, clientAvailable, permits, modelCalls, transportError,
                   merged>>
    /\ UNCHANGED nonWorkerVars

\* a worker that goes on to the model calls whether or not it has a client
WAcquireWithoutClientTest ==
    /\ wpc = "semaphore"
    /\ permits > 0
    /\ permits' = permits - 1
    /\ wpc' = "connect"
    /\ UNCHANGED <<task, clientAvailable, mergedContent, hasConflicts, modelCalls,
                   transportError, result, merged>>
    /\ UNCHANGED nonWorkerVars

\* lines 1080-1090: async with semaphore, create the client; without a
\* client the heuristic result is returned (and the semaphore released)
WAcquire ==
    /\ wpc = "semaphore"
    /\ permits > 0
    /\ IF ~clientAvailable
       THEN LET h == HeuristicMerge(task.main_content, task.worktree_content,
                                    task.base_content) IN
            /\ WReturn(ParallelMergeResult(h, Truthy(h),
                                           "AI unavailable, used heuristic", FALSE))
            /\ UNCHANGED permits
       ELSE /\ permits' = permits - 1
            /\ wpc' = "connect"
            /\ UNCHANGED result
    /\ UNCHANGED <<task, clientAvailable, mergedContent, hasConflicts, modelCalls,
                   transportError, merged>>
    /\ UNCHANGED nonWorkerVars

\* str(e) of the exception that reaches the handler of lines 1184-1191
ExceptionMessage == "exception"

\* lines 1092-1125: async with client (the client connects), language,
\* task intent, and for a text with markers parse_conflict_markers; an
\* exception here, of the client or of another call, ends in the handler
\* of lines 1184-1191
WConnect ==
    /\ wpc = "connect"
    /\ \E raises \in BOOLEAN, conflicts_found \in BOOLEAN,
          by_client \in BOOLEAN :
          IF raises
          THEN /\ WReturn(ParallelMergeResult(
                       HeuristicMerge(task.main_content, task.worktree_content,
                                      task.base_content),
                       FALSE, ExceptionMessage, FALSE))
               /\ permits' = permits + 1
               /\ transportError' = IF by_client THEN ExceptionMessage ELSE "none"
          ELSE /\ wpc' = IF Truthy(mergedContent) /\ hasConflicts /\ conflicts_found
                         THEN "conflict_call" ELSE "full_call"
               /\ UNCHANGED <<result, permits, transportError>>
    /\ UNCHANGED <<task, clientAvailable, mergedContent, hasConflicts, modelCalls,
                   merged>>
    /\ UNCHANGED nonWorkerVars

\* _async_ai_call, lines 990-1006: an exception of client.query or of
\* client.receive_response is caught and "" is returned, out of which the
\* caller gets no merged text; otherwise the response is what the model sent
AsyncAiCall(raised) == IF raised THEN {None} ELSE ModelMerges

\* lines 1127-1140: the conflict-only model call and what is made of it
WConflictCall ==
    /\ wpc = "conflict_call"
    /\ modelCalls' = modelCalls + 1
    /\ \E raised \in BOOLEAN : \E m \in AsyncAiCall(raised) :
          /\ transportError' = IF raised THEN ExceptionMessage ELSE transportError
          /\ merged' = m
          /\ IF m # None /\ ValidateMergedSyntax(task.file_path, m)
             THEN /\ WReturn(ParallelMergeResult(m, TRUE, "None", FALSE))
                  /\ permits' = permits + 1
             ELSE /\ wpc' = "full_call"
                  /\ UNCHANGED <<result, permits>>
    /\ UNCHANGED <<task, clientAvailable, mergedContent, hasConflicts>>
    /\ UNCHANGED nonWorkerVars

\* lines 1142-1182: the full-file model call and what is made of it
WFullCall ==
    /\ wpc = "full_call"
    /\ modelCalls' = modelCalls + 1
    /\ \E raised \in BOOLEAN : \E m \in AsyncAiCall(raised) :
          /\ transportError' = IF raised THEN ExceptionMessage ELSE transportError
          /\ merged' = m
          /\ IF Truthy(m) /\ ValidateMergedSyntax(task.file_path, m)
             THEN WReturn(ParallelMergeResult(m, TRUE, "None", FALSE))
             ELSE WReturn(ParallelMergeResult(None, FALSE,
                                              "AI could not merge file", FALSE))
    /\ permits' = permits + 1
    /\ UNCHANGED <<task, clientAvailable, mergedContent, hasConflicts>>
    /\ UNCHANGED nonWorkerVars

--------------------------------------------------------------------------
(***************************************************************************)
(* _run_parallel_merges: one batch of workers over a list of tasks.  The    *)
(* workers are the coroutines of _merge_file_with_ai_async, here reduced   *)
(* to where they stand with respect to the semaphore and to how they end.  *)
(* pool.state[t] is "start" (before the semaphore), "waiting" (at async    *)
(* with semaphore), "inside" (in the guarded section, holding a permit),   *)
(* "done_pre" (returned before the semaphore), "done_sem" (returned from   *)
(* the guarded section), "raised" (an exception left the coroutine) or     *)
(* "cancelled".                                                            *)
(***************************************************************************)
NumTasks == 6

\* the file path of the i-th task
PathOf(i) == FilePath(ToString(i), ".py")

\* tasks: List[ParallelMergeTask], of any length up to NumTasks
TaskLists == { [i \in 1..n |-> [file_path |-> PathOf(i)]] : n \in 0..NumTasks }

Pending == [kind |-> "pending"]
NoReturn == [kind |-> "no return"]

\* what a worker coroutine hands to gather: the ParallelMergeResult it
\* returns (every return statement passes file_path = task.file_path), or
\* the exception that left it
WorkerResult(file_path) == [kind |-> "result", file_path |-> file_path]
WorkerException == [kind |-> "exception"]

\* the list is returned as gather filled it
ProcessedResultRaw(tasks, i, r) == r

\* lines 1230-1245: an exception in the list becomes a failed result under
\* the path of the task at the same index, a result is passed on
ProcessedResult(tasks, i, r) ==
    IF r.kind = "exception"
    THEN [kind |-> "result", file_path |-> tasks[i].file_path,
          merged_content |-> None, success |-> FALSE, error |-> "str(result)"]
    ELSE r

\* asyncio.gather files the outcome of the i-th awaitable at index i
GatherSlotByCompletion(i) ==
    Cardinality({u \in DOMAIN pool.state :
                    pool.state[u] \in {"done_pre", "done_sem", "raised"}}) + 1

GatherSlot(i) == i

PoolIdle ==
    pool = [tasks |-> <<>>, batch |-> "idle", permits |-> 0,
            state |-> <<>>, gathered |-> <<>>, returned |-> NoReturn]

\* the call _run_parallel_merges(tasks, project_dir, max_concurrent)
PoolInit ==
    \E tasks \in TaskLists :
        pool = [tasks |-> tasks, batch |-> "called", permits |-> 0,
                state |-> [i \in DOMAIN tasks |-> "start"],
                gathered |-> [i \in DOMAIN tasks |-> Pending],
                returned |-> NoReturn]

PoolFrame == UNCHANGED <<lockVars, workerVars, orch, smart, val, disc>>

\* lines 1212-1227: no tasks, return []; else the semaphore, one coroutine
\* per task, and gather
PoolCall ==
    /\ pool.batch = "called"
    /\ IF pool.tasks = <<>>
       THEN pool' = [pool EXCEPT !.batch = "returned", !.returned = <<>>]
       ELSE pool' = [pool EXCEPT !.batch = "gathering",
                                 !.permits = MAX_PARALLEL_AI_MERGES]
    /\ PoolFrame

\* worker t ends: its outcome goes to gather
PoolEnd(t, how, outcome) ==
    [pool EXCEPT !.state[t] = how, !.gathered[GatherSlot(t)] = outcome]

\* a worker that would take its permit before the quick checks
PoolPreChecksUnderSemaphore(t) ==
    /\ pool.batch = "gathering"
    /\ pool.state[t] = "start"
    /\ pool.permits > 0
    /\ \/ pool' = PoolEnd(t, "done_pre", WorkerResult(pool.tasks[t].file_path))
       \/ pool' = PoolEnd(t, "raised", WorkerException)
       \/ pool' = [pool EXCEPT !.state[t] = "waiting"]
    /\ PoolFrame

\* lines 1019-1077 of worker t: imports, the quick checks and the native
\* merge; it returns, or an exception leaves it, or it goes on to the
\* semaphore
PoolPreChecks(t) ==
    /\ pool.batch = "gathering"
    /\ pool.state[t] = "start"
    /\ \/ pool' = PoolEnd(t, "done_pre", WorkerResult(pool.tasks[t].file_path))
       \/ pool' = PoolEnd(t, "raised", WorkerException)
       \/ pool' = [pool EXCEPT !.state[t] = "waiting"]
    /\ PoolFrame

\* the guard of asyncio.Semaphore.acquire
SemaphoreFreeAlways == TRUE

SemaphoreFree == pool.permits > 0

\* lines 1079-1091 of worker t: async with semaphore and the client; with
\* no client it returns at once (the permit is given back on the way out),
\* an exception of the client's construction leaves the coroutine the same
\* way, otherwise the worker is in the guarded section
PoolAcquire(t) ==
    /\ pool.batch = "gathering"
    /\ pool.state[t] = "waiting"
    /\ SemaphoreFree
    /\ \/ pool' = PoolEnd(t, "done_sem", WorkerResult(pool.tasks[t].file_path))
       \/ pool' = PoolEnd(t, "raised", WorkerException)
       \/ pool' = [pool EXCEPT !.state[t] = "inside",
                               !.permits = pool.permits - 1]
    /\ PoolFrame

\* lines 1092-1191 of worker t: the model calls; every way out of the try
\* block, the handler of Exception included, is a return, and leaving the
\* async with gives the permit back
PoolRelease(t) ==
    /\ pool.batch = "gathering"
    /\ pool.state[t] = "inside"
    /\ pool' = [PoolEnd(t, "done_sem", WorkerResult(pool.tasks[t].file_path))
                    EXCEPT !.permits = pool.permits + 1]
    /\ PoolFrame

PoolFinished == {"done_pre", "done_sem", "raised"}

\* lines 1227-1247: gather is complete, the list is processed and returned
PoolReturn ==
    /\ pool.batch = "gathering"
    /\ \A t \in DOMAIN pool.tasks : pool.state[t] \in PoolFinished
    /\ pool' = [pool EXCEPT
                  !.batch = "returned",
                  !.returned = [i \in DOMAIN pool.tasks |->
                                  ProcessedResult(pool.tasks, i, pool.gathered[i])]]
    /\ PoolFrame

\* lines 721-725 and 1227: the batch is cancelled (an interrupt reaches
\* asyncio.run, which cancels the main task and with it gather and every
\* pending worker); CancelledError is no Exception, so no handler of the
\* worker or of the batch takes it, each async with semaphore gives its
\* permit back while the coroutine unwinds, and the call does not return
PoolCancel ==
    /\ pool.batch = "gathering"
    /\ pool' = [pool EXCEPT
                  !.batch = "cancelled",
                  !.state = [t \in DOMAIN pool.tasks |->
                               IF pool.state[t] \in PoolFinished
                               THEN pool.state[t] ELSE "cancelled"],
                  !.permits = pool.permits +
                      Cardinality({t \in DOMAIN pool.tasks :
                                      pool.state[t] = "inside"})]
    /\ PoolFrame

--------------------------------------------------------------------------
(***************************************************************************)
(* _resolve_git_conflicts_with_ai and what _try_smart_merge_inner and      *)
(* merge_existing_build make of its result.  A path is its position in     *)
(* orch.files; changed_files and conflicting_files list the paths in that  *)
(* order.  Each path carries the status git diff --name-status reports for *)
(* the task's branch against the merge base, whether it is one of the      *)
(* conflicting_files, and whether git show finds it on the base branch     *)
(* (main) and on the task's branch (worktree).  The working tree is the    *)
(* checkout of the base branch.                                            *)
(***************************************************************************)
NumPaths == 3

Paths == 1..NumPaths

FileKind(status, conflicting, main, worktree) ==
    [status |-> status, conflicting |-> conflicting, main |-> main,
     worktree |-> worktree]

FileKinds ==
    { FileKind("A", FALSE, FALSE, TRUE),   \* added by the task
      FileKind("M", FALSE, TRUE, TRUE),    \* modified by the task
      FileKind("D", FALSE, TRUE, FALSE),   \* deleted by the task
      FileKind("M", TRUE, TRUE, TRUE),     \* modified on both branches
      FileKind("A", TRUE, TRUE, TRUE),     \* added on both branches
      FileKind("D", TRUE, TRUE, FALSE),    \* deleted by the task, modified on main
      FileKind("M", TRUE, FALSE, TRUE),    \* modified by the task, deleted on main
      FileKind("D", TRUE, FALSE, FALSE) }  \* deleted on both branches

Range(seq) == { seq[k] : k \in DOMAIN seq }

\* the paths in list order
PathList == [i \in Paths |-> i]

\* target_path.write_text(...) followed by git add; unlink followed by git add
WriteEvent(f) == [op |-> "write", path |-> f]
UnlinkEvent(f) == [op |-> "unlink", path |-> f]

\* _record_merge_completion: mark_task_completed and on_task_merged
RecordEvent == [op |-> "record", path |-> 0]

\* a record of completion made before the last files are applied
RecordBeforeEvents(events, resolved_files) ==
    (IF resolved_files # <<>> THEN <<RecordEvent>> ELSE <<>>) \o events

\* lines 778-800: the last files are applied, then, if any file was
\* resolved, the merge is recorded
EventsThenRecord(events, resolved_files) ==
    events \o (IF resolved_files # <<>> THEN <<RecordEvent>> ELSE <<>>)

Conflict(f, reason) == [file |-> f, reason |-> reason, severity |-> "high"]

OrchIdle == orch = [phase |-> "idle"]

OrchInit ==
    \E files \in [Paths -> FileKinds], no_commit \in BOOLEAN :
        /\ orch = [files |-> files,
                   no_commit |-> no_commit,
                   phase |-> "new_files",
                   events |-> <<>>,
                   tree |-> [f \in Paths |->
                               IF files[f].main THEN "main" ELSE "absent"],
                   index |-> {},
                   resolved_files |-> <<>>,
                   remaining_conflicts |-> <<>>,
                   simple_merges |-> <<>>,
                   files_needing_ai_merge |-> <<>>,
                   parallel_results |-> <<>>,
                   auto_merged_count |-> 0,
                   ai_merged_count |-> 0,
                   resolution_result |-> None,
                   smart_result |-> None,
                   recorded |-> FALSE,
                   committed |-> FALSE,
                   merge_worktree_calls |-> 0,
                   worktree_removed |-> FALSE,
                   ret |-> "unset"]

OrchFrame == UNCHANGED <<lockVars, workerVars, pool, smart, val, disc>>

\* the working tree after the paths of written hold content and the paths
\* of unlinked are gone
TreeAfter(tree, written, content, unlinked) ==
    [f \in DOMAIN tree |->
        IF f \in written THEN content
        ELSE IF f \in unlinked THEN "absent" ELSE tree[f]]

\* lines 613-631: the added paths that are not conflicting are copied
\* first; a path whose content cannot be read, or whose copy raises, is
\* passed over with a warning
\* every added path, conflicting or not
IsAddedFile(file) == file.status = "A"

\* line 616: s == "A" and f not in conflicting_files
IsNewFile(file) == file.status = "A" /\ ~file.conflicting

ONewFiles ==
    /\ orch.phase = "new_files"
    /\ LET new_files == SelectSeq(PathList, LAMBDA f : IsNewFile(orch.files[f]))
       IN \E lost \in SUBSET Range(new_files) :
            LET copied == SelectSeq(new_files, LAMBDA f : f \notin lost) IN
            orch' = [orch EXCEPT
                       !.phase = "categorize",
                       !.events = @ \o [k \in DOMAIN copied |-> WriteEvent(copied[k])],
                       !.tree = TreeAfter(@, Range(copied), "worktree", {}),
                       !.index = @ \cup Range(copied),
                       !.resolved_files = @ \o copied]
    /\ OrchFrame

\* lines 633-683: each conflicting path is skipped (on neither branch),
\* becomes a simple merge (on one branch only) or a task for the workers
\* (on both); a path whose categorization raises is an unresolved conflict
OCategorize ==
    /\ orch.phase = "categorize"
    /\ LET conflicting_files == SelectSeq(PathList,
               LAMBDA f : orch.files[f].conflicting)
       IN \E broken \in SUBSET Range(conflicting_files) :
            LET read == SelectSeq(conflicting_files, LAMBDA f : f \notin broken) IN
            orch' = [orch EXCEPT
                       !.phase = "simple_merges",
                       !.simple_merges = SelectSeq(read,
                           LAMBDA f : orch.files[f].main # orch.files[f].worktree),
                       !.files_needing_ai_merge = SelectSeq(read,
                           LAMBDA f : orch.files[f].main /\ orch.files[f].worktree),
                       !.remaining_conflicts = @ \o
                           [k \in DOMAIN SelectSeq(conflicting_files,
                                                   LAMBDA f : f \in broken) |->
                              Conflict(SelectSeq(conflicting_files,
                                                 LAMBDA f : f \in broken)[k],
                                       "str(e)")]]
    /\ OrchFrame

\* lines 685-711: the simple merges in list order: the worktree's content
\* is written, or the file is unlinked if it exists; a path whose step
\* raises is an unresolved conflict
OSimpleMerges ==
    /\ orch.phase = "simple_merges"
    /\ \E failing \in SUBSET Range(orch.simple_merges) :
         LET done == SelectSeq(orch.simple_merges, LAMBDA f : f \notin failing)
             failed == SelectSeq(orch.simple_merges, LAMBDA f : f \in failing)
             touched == SelectSeq(done,
                 LAMBDA f : orch.files[f].worktree \/ orch.tree[f] # "absent")
             written == { f \in Range(touched) : orch.files[f].worktree }
         IN orch' = [orch EXCEPT
                       !.phase = "parallel_merges",
                       !.events = @ \o [k \in DOMAIN touched |->
                                          IF orch.files[touched[k]].worktree
                                          THEN WriteEvent(touched[k])
                                          ELSE UnlinkEvent(touched[k])],
                       !.tree = TreeAfter(@, written, "worktree",
                                          Range(touched) \ written),
                       !.index = @ \cup Range(touched),
                       !.resolved_files = @ \o done,
                       !.remaining_conflicts = @ \o
                           [k \in DOMAIN failed |-> Conflict(failed[k], "str(e)")]]
    /\ OrchFrame

\* what a worker's result can be for the orchestrator
ResultKinds == {"ai_merged", "auto_merged", "failed"}

MergeResult(f, kind) ==
    [file_path |-> f,
     merged_content |-> IF kind = "failed" THEN None ELSE Text("merged", 1),
     success |-> kind # "failed",
     error |-> IF kind = "failed" THEN "error" ELSE "None",
     was_auto_merged |-> kind = "auto_merged"]

\* lines 732-737: is the result written and staged
ResultIsWrittenAlways(r) == TRUE

ResultIsWritten(r) == r.success

\* lines 713-759: the tasks go to _run_parallel_merges and the results are
\* processed in order: a successful one is written and staged, any other
\* becomes an unresolved conflict with the result's error as its reason
OParallelMerges ==
    /\ orch.phase = "parallel_merges"
    /\ LET tasks == orch.files_needing_ai_merge IN
       \E kinds \in [Range(tasks) -> ResultKinds] :
         LET parallel_results == [k \in DOMAIN tasks |->
                                    MergeResult(tasks[k], kinds[tasks[k]])]
             good == SelectSeq(parallel_results, ResultIsWritten)
             bad == SelectSeq(parallel_results, LAMBDA r : ~ResultIsWritten(r))
             written == { r.file_path : r \in Range(good) }
         IN orch' = [orch EXCEPT
                       !.phase = "remaining_files",
                       !.parallel_results = parallel_results,
                       !.events = @ \o [k \in DOMAIN good |->
                                          WriteEvent(good[k].file_path)],
                       !.tree = TreeAfter(@, written, "merged", {}),
                       !.index = @ \cup written,
                       !.resolved_files = @ \o [k \in DOMAIN good |->
                                                  good[k].file_path],
                       !.auto_merged_count = Cardinality(
                           { r \in Range(good) : r.was_auto_merged }),
                       !.ai_merged_count = Cardinality(
                           { r \in Range(good) : ~r.was_auto_merged }),
                       !.remaining_conflicts = @ \o
                           [k \in DOMAIN bad |->
                              Conflict(bad[k].file_path, bad[k].error)]]
    /\ OrchFrame

\* lines 761-766: with unresolved conflicts the function returns here
StopsOnRemainingNever(remaining_conflicts) == FALSE

StopsOnRemaining(remaining_conflicts) == remaining_conflicts # <<>>

\* lines 761-812: the early return, or else the non-conflicting modified
\* and deleted paths in list order, the record of the merge in the
\* evolution and timeline stores, and the success result
ORemainingFiles ==
    /\ orch.phase = "remaining_files"
    /\ IF StopsOnRemaining(orch.remaining_conflicts)
       THEN orch' = [orch EXCEPT
                       !.phase = "inner_return",
                       !.resolution_result =
                           [success |-> FALSE,
                            resolved_files |-> orch.resolved_files,
                            remaining_conflicts |-> orch.remaining_conflicts]]
       ELSE LET non_conflicting == SelectSeq(PathList,
                    LAMBDA f : ~orch.files[f].conflicting
                               /\ orch.files[f].status # "A")
            IN \E lost \in SUBSET Range(non_conflicting) :
                 LET done == SelectSeq(non_conflicting, LAMBDA f : f \notin lost)
                     touched == SelectSeq(done,
                         LAMBDA f : orch.files[f].status # "D"
                                    \/ orch.tree[f] # "absent")
                     written == { f \in Range(touched) :
                                     orch.files[f].status # "D" }
                     copied == SelectSeq(touched,
                         LAMBDA f : orch.files[f].status # "D")
                     resolved_files == orch.resolved_files \o copied
                 IN orch' = [orch EXCEPT
                       !.phase = "inner_return",
                       !.events = @ \o EventsThenRecord(
                                        [k \in DOMAIN touched |->
                                           IF orch.files[touched[k]].status = "D"
                                           THEN UnlinkEvent(touched[k])
                                           ELSE WriteEvent(touched[k])],
                                        resolved_files),
                       !.tree = TreeAfter(@, written, "worktree",
                                          Range(touched) \ written),
                       !.index = @ \cup Range(touched),
                       !.resolved_files = resolved_files,
                       !.recorded = (resolved_files # <<>>),
                       !.resolution_result =
                           [success |-> TRUE,
                            resolved_files |-> resolved_files,
                            stats |-> [ai_assisted |-> orch.ai_merged_count,
                                       auto_merged |-> orch.auto_merged_count]]]
    /\ OrchFrame

\* _try_smart_merge_inner, lines 378-395: a success is passed on, a
\* failure becomes the git_conflicts result
OInnerReturn ==
    /\ orch.phase = "inner_return"
    /\ orch' = [orch EXCEPT
                  !.phase = "after_smart",
                  !.smart_result =
                      IF orch.resolution_result.success
                      THEN orch.resolution_result
                      ELSE [success |-> FALSE,
                            conflicts |-> orch.resolution_result.remaining_conflicts,
                            resolved |-> orch.resolution_result.resolved_files,
                            git_conflicts |-> TRUE]]
    /\ OrchFrame

\* merge_existing_build, lines 201-277: the staged result of the model is
\* final (the worktree is removed, best effort); a success without a model
\* merge is followed by the standard git merge, and by the fallback merge
\* if that fails; unresolved conflicts end the merge with False.
\* manager.merge_worktree(..., no_commit) is the only step that commits:
\* a merge that succeeds commits unless no_commit is set
ODispatch ==
    /\ orch.phase = "after_smart"
    /\ LET r == orch.smart_result IN
       IF r.success /\ r.stats.ai_assisted > 0
       THEN \E removed \in BOOLEAN :
              orch' = [orch EXCEPT !.phase = "returned",
                                   !.worktree_removed = removed,
                                   !.ret = "true"]
       ELSE IF r.success
       THEN \E ok \in BOOLEAN, ok2 \in BOOLEAN :
              orch' = [orch EXCEPT
                         !.phase = "returned",
                         !.merge_worktree_calls = IF ok THEN 1 ELSE 2,
                         !.worktree_removed = ok \/ ok2,
                         !.committed = (ok \/ ok2) /\ ~orch.no_commit,
                         !.ret = IF ok \/ ok2 THEN "true" ELSE "false"]
       ELSE IF r.conflicts # <<>>
       THEN orch' = [orch EXCEPT !.phase = "returned", !.ret = "false"]
       ELSE \E ok \in BOOLEAN :
              orch' = [orch EXCEPT
                         !.phase = "returned",
                         !.merge_worktree_calls = 1,
                         !.worktree_removed = ok,
                         !.committed = ok /\ ~orch.no_commit,
                         !.ret = IF ok THEN "true" ELSE "false"]
    /\ OrchFrame

--------------------------------------------------------------------------
(***************************************************************************)
(* _try_smart_merge_inner with _check_git_conflicts, and what              *)
(* merge_existing_build does with the result.  The facts of the            *)
(* repository are: whether git merge-base finds a common ancestor, whether *)
(* both branch names resolve, which paths each side changed since the      *)
(* ancestor (what git diff --name-only prints for that side), and the      *)
(* return code of git merge-tree.                                          *)
(***************************************************************************)
\* git merge-tree --write-tree --no-messages <base> <main> <spec>: 0 for a
\* clean merge, 1 for conflicts, 129 when git rejects the command line
MergeTreeReturnCodes == {0, 1, 129}

\* the paths named in output lines that contain "CONFLICT": --no-messages
\* suppresses those lines
ParsedConflictLines == {}

\* the files of either list
FilesChangedInEither(main_files, spec_files) == main_files \cup spec_files

\* line 549: conflicting = main_files & spec_files
FilesChangedInBoth(main_files, spec_files) == main_files \cap spec_files

NoConflicts == [has_conflicts |-> FALSE, conflicting_files |-> {}]

\* _check_git_conflicts, lines 474-555
CheckGitConflicts(merge_base, commits, changed, returncode) ==
    IF ~merge_base THEN NoConflicts
    ELSE IF ~commits THEN NoConflicts
    ELSE IF returncode # 0
    THEN [has_conflicts |-> TRUE,
          conflicting_files |->
              IF ParsedConflictLines # {} THEN ParsedConflictLines
              ELSE FilesChangedInBoth({f \in DOMAIN changed : changed[f].main},
                                      {f \in DOMAIN changed : changed[f].spec})]
    ELSE NoConflicts

SmartIdle == smart = [phase |-> "idle"]

SmartInit ==
    \E merge_base \in BOOLEAN, commits \in BOOLEAN,
       changed \in [Paths -> [main : BOOLEAN, spec : BOOLEAN]],
       returncode \in MergeTreeReturnCodes :
        \* git reports conflicts only between changes of both sides
        /\ returncode = 1 => \E f \in Paths : changed[f].main /\ changed[f].spec
        /\ smart = [merge_base |-> merge_base,
                    commits |-> commits,
                    changed |-> changed,
                    returncode |-> returncode,
                    phase |-> "capture",
                    failed_store_ops |-> {},
                    raised |-> "none",
                    git_conflicts |-> None,
                    smart_result |-> "unset",
                    merge_worktree_calls |-> 0,
                    ret |-> "unset"]

SmartFrame == UNCHANGED <<lockVars, workerVars, pool, orch, val, disc>>

\* the except clause of lines 434-439: the exception is printed and None
\* is returned
SmartRaises(op, store_ops) ==
    smart' = [smart EXCEPT !.phase = "after_smart",
                           !.raised = op,
                           !.failed_store_ops = @ \cup store_ops,
                           !.smart_result = "none"]

\* lines 329-335: capture_worktree_state, in a try block of its own
SCapture ==
    /\ smart.phase = "capture"
    /\ \E fails \in BOOLEAN :
          smart' = [smart EXCEPT
                      !.phase = "refresh",
                      !.failed_store_ops =
                          IF fails THEN @ \cup {"capture_worktree_state"} ELSE @]
    /\ SmartFrame

\* lines 337-350: MergeOrchestrator(...) and
\* orchestrator.evolution_tracker.refresh_from_git(...), in the outer try
\* block only
SRefresh ==
    /\ smart.phase = "refresh"
    /\ \E fails \in BOOLEAN :
          IF fails
          THEN SmartRaises("none", {"refresh_from_git"})
          ELSE smart' = [smart EXCEPT !.phase = "check"]
    /\ SmartFrame

\* lines 352-362: git_conflicts = _check_git_conflicts(...)
SCheckGitConflicts ==
    /\ smart.phase = "check"
    /\ LET git_conflicts == CheckGitConflicts(smart.merge_base, smart.commits,
                                              smart.changed, smart.returncode)
       IN smart' = [smart EXCEPT
                      !.git_conflicts = git_conflicts,
                      !.phase = IF git_conflicts.has_conflicts
                                THEN "resolve" ELSE "preview"]
    /\ SmartFrame

\* lines 363-395: _resolve_git_conflicts_with_ai and the result made of
\* its return value; a failure of _record_merge_completion's store calls
\* stays inside that function (lines 1292-1343)
SResolve ==
    /\ smart.phase = "resolve"
    /\ \/ \E outcome \in {"ai_resolved", "success_no_ai"}, record_fails \in BOOLEAN :
            smart' = [smart EXCEPT
                        !.phase = "after_smart",
                        !.smart_result = outcome,
                        !.failed_store_ops =
                            IF record_fails
                            THEN @ \cup {"mark_task_completed", "on_task_merged"}
                            ELSE @]
       \/ smart' = [smart EXCEPT !.phase = "after_smart",
                                 !.smart_result = "partial"]
       \/ SmartRaises("_resolve_git_conflicts_with_ai", {})
    /\ SmartFrame

\* lines 396-432: orchestrator.preview_merge and the result made of it
SPreview ==
    /\ smart.phase = "preview"
    /\ \/ \E outcome \in {"semantic", "success_no_ai"} :
            smart' = [smart EXCEPT !.phase = "after_smart",
                                   !.smart_result = outcome]
       \/ SmartRaises("preview_merge", {})
    /\ SmartFrame

\* merge_existing_build, lines 201-253: dispatch on the smart-merge result
SDispatch ==
    /\ smart.phase = "after_smart"
    /\ CASE smart.smart_result = "ai_resolved" ->
              smart' = [smart EXCEPT !.phase = "returned", !.ret = "true"]
         [] smart.smart_result = "success_no_ai" ->
              \E ok \in BOOLEAN :
                 smart' = [smart EXCEPT
                             !.merge_worktree_calls = @ + 1,
                             !.phase = IF ok THEN "returned" ELSE "fallback",
                             !.ret = IF ok THEN "true" ELSE @]
         [] smart.smart_result = "partial" ->
              smart' = [smart EXCEPT !.phase = "returned", !.ret = "false"]
         [] OTHER ->
              smart' = [smart EXCEPT !.phase = "fallback"]
    /\ SmartFrame

\* merge_existing_build, lines 255-277: "Fall back to standard git merge"
SFallback ==
    /\ smart.phase = "fallback"
    /\ \E ok \in BOOLEAN :
          smart' = [smart EXCEPT
                      !.phase = "returned",
                      !.merge_worktree_calls = @ + 1,
                      !.ret = IF ok THEN "true" ELSE "false"]
    /\ SmartFrame

--------------------------------------------------------------------------
(***************************************************************************)
(* _validate_merged_syntax with the answers of its tools.  A call of       *)
(* subprocess.run either raises (the program is not there, the timeout     *)
(* expires, another error) or completes with a return code and output;     *)
(* compile() and json.loads either return, raise their syntax error or     *)
(* raise another exception (RecursionError, MemoryError).                  *)
(***************************************************************************)
ValidatedSuffixes == {".ts", ".tsx", ".js", ".jsx", ".py", ".PY", ".json", ".txt"}

RunExceptions == {"FileNotFoundError", "TimeoutExpired", "OSError"}

Raised(exception) == [kind |-> "raised", exception |-> exception]

Completed(returncode, stdout, stderr) ==
    [kind |-> "completed", returncode |-> returncode,
     stdout |-> stdout, stderr |-> stderr]

\* npx tsc --noEmit --skipLibCheck: tsc prints its diagnostics on stdout;
\* stderr carries what npm itself says
TscRuns ==
    {Raised(e) : e \in RunExceptions}
    \cup {Completed(0, "", ""), Completed(0, "", "npm warn"),
          Completed(2, "error TS1005", ""), Completed(2, "error TS1005", "npm warn"),
          Completed(2, "error TS2304", ""),
          Completed(1, "", "npm warn"), Completed(1, "", "npm error")}

\* npx eslint --no-eslintrc --parser @typescript-eslint/parser
EslintRuns ==
    {Raised(e) : e \in RunExceptions}
    \cup {Completed(0, "", ""), Completed(1, "Parsing error", ""),
          Completed(1, "no-unused-vars", ""), Completed(2, "", "config error")}

\* compile(content, file_path, 'exec') and json.loads(content)
ParseOutcomes == {"returns", "syntax_error", "other_exception"}

Valid(is_valid, message) == [kind |-> "returned", valid |-> is_valid, message |-> message]

\* lines 1506-1509: the lines of stderr that do not start with 'npm warn'
ErrorLines(stderr) == IF stderr \in {"", "npm warn"} THEN "" ELSE stderr

\* lines 1515-1539: the eslint run and the handlers of the outer try block
EslintStep(eslint) ==
    IF eslint.kind = "raised" THEN Valid(TRUE, "")
    ELSE IF eslint.returncode > 1 THEN Valid(TRUE, "")
    ELSE IF eslint.returncode = 1 /\ eslint.stdout = "Parsing error"
    THEN Valid(FALSE, "Syntax error in merged code")
    ELSE Valid(TRUE, "")

\* _validate_merged_syntax, lines 1469-1558
ValidateMergedSyntaxCall(suffix, tsc, eslint, parse) ==
    LET ext == Lower(suffix) IN
    IF ext \in {".ts", ".tsx", ".js", ".jsx"}
    THEN IF ext \in {".ts", ".tsx"}
         THEN IF tsc.kind = "raised" THEN Valid(TRUE, "")
              ELSE IF tsc.returncode # 0 /\ ErrorLines(tsc.stderr) # ""
              THEN Valid(FALSE, ErrorLines(tsc.stderr))
              ELSE EslintStep(eslint)
         ELSE EslintStep(eslint)
    ELSE IF ext = ".py"
    THEN CASE parse = "returns" -> Valid(TRUE, "")
           [] parse = "syntax_error" -> Valid(FALSE, "Python syntax error")
           [] OTHER -> Raised(parse)
    ELSE IF ext = ".json"
    THEN CASE parse = "returns" -> Valid(TRUE, "")
           [] parse = "syntax_error" -> Valid(FALSE, "JSON error")
           [] OTHER -> Raised(parse)
    ELSE Valid(TRUE, "")

ValIdle == val = [phase |-> "idle"]

ValInit ==
    \E suffix \in ValidatedSuffixes, tsc \in TscRuns, eslint \in EslintRuns,
       parse \in ParseOutcomes :
        val = [phase |-> "called", suffix |-> suffix, tsc |-> tsc,
               eslint |-> eslint, parse |-> parse, result |-> None]

ValFrame == UNCHANGED <<lockVars, workerVars, pool, orch, smart, disc>>

\* the call returns or raises
VValidate ==
    /\ val.phase = "called"
    /\ val' = [val EXCEPT
                 !.phase = "done",
                 !.result = ValidateMergedSyntaxCall(val.suffix, val.tsc,
                                                     val.eslint, val.parse)]
    /\ ValFrame

--------------------------------------------------------------------------
(***************************************************************************)
(* discard_existing_build.  A line typed by the user is a word between     *)
(* leading and trailing whitespace; input() may also raise.                *)
(***************************************************************************)
TypedWords == {"delete", "DELETE", "Delete", "dElEtE", "delet", "deleted",
               "yes", "y", "no", ""}
Whitespace == {"", " ", "\t"}

Line(lead, word, trail) == [kind |-> "line", lead |-> lead, word |-> word, trail |-> trail]

\* what input() does: a line, KeyboardInterrupt (Ctrl-C) or EOFError (stdin
\* is closed)
Inputs ==
    {Line(lead, word, trail) : lead \in Whitespace, word \in TypedWords,
                               trail \in Whitespace}
    \cup {[kind |-> "KeyboardInterrupt"], [kind |-> "EOFError"]}

\* str.strip(): the whitespace at both ends is dropped
Strip(line) == Line("", line.word, "")

\* str.lower() on the typed word
LowerWord(word) == IF word \in {"DELETE", "Delete", "dElEtE"} THEN "delete" ELSE word

\* line 2142: confirmation = input().strip().lower()
Confirmation(line) == Line("", LowerWord(Strip(line).word), "")

DiscIdle == disc = [phase |-> "idle"]

DiscInit ==
    \E worktree \in BOOLEAN, typed \in Inputs :
        disc = [phase |-> "called",
                worktree |-> worktree,      \* .worktrees/<spec_name> exists
                branch |-> worktree,        \* and so does its branch
                typed |-> typed,
                ret |-> "unset"]

DiscFrame == UNCHANGED <<lockVars, workerVars, pool, orch, smart, val>>

DReturn(value) == disc' = [disc EXCEPT !.phase = "returned", !.ret = value]

\* lines 2119-2139: no worktree, no question
DStart ==
    /\ disc.phase = "called"
    /\ IF ~disc.worktree
       THEN DReturn("false")
       ELSE disc' = [disc EXCEPT !.phase = "asked"]
    /\ DiscFrame

\* lines 2141-2151: the answer is read and compared
DConfirm ==
    /\ disc.phase = "asked"
    /\ CASE disc.typed.kind = "KeyboardInterrupt" -> DReturn("false")
         [] disc.typed.kind = "EOFError" -> DReturn("exception")
         [] OTHER ->
              IF Confirmation(disc.typed) # Line("", "delete", "")
              THEN DReturn("false")
              ELSE disc' = [disc EXCEPT !.phase = "confirmed"]
    /\ DiscFrame

\* lines 2153-2158: manager.remove_worktree(spec_name, delete_branch=True)
DRemove ==
    /\ disc.phase = "confirmed"
    /\ disc' = [disc EXCEPT !.phase = "returned", !.ret = "true",
                            !.worktree = FALSE, !.branch = FALSE]
    /\ DiscFrame

--------------------------------------------------------------------------
Init == LockInit /\ WorkerIdle /\ PoolIdle /\ OrchIdle /\ SmartIdle /\ ValIdle /\ DiscIdle

Next ==
    \/ \E p \in Procs : Proc(p)
    \/ \E p \in Procs : Crash(p)
    \/ \E p \in Procs : CrashInWrite(p)
    \/ \E p \in Procs : PidReuse(p)
    \/ Tick

Spec == Init /\ [][Next]_vars

(***************************************************************************)
(* SpecLive: the last invocation was killed while it held the lock (its    *)
(* pid may since have been handed to an unrelated process) and the         *)
(* operators of the other invocations run the merge again and again.       *)
(* Every invocation that can step eventually steps, a finished invocation  *)
(* is eventually started again, and time passes.                           *)
(***************************************************************************)
KilledHolder == NumProcs

LiveInit ==
    /\ now = 0
    /\ lockFile = LockData(KilledHolder, 0)
    /\ worktreeExists = TRUE
    /\ \E reused \in BOOLEAN :
          alive = [q \in Procs |-> q # KilledHolder \/ reused]
    /\ pc = [p \in Procs |-> IF p = KilledHolder THEN "crashed" ELSE "start"]
    /\ acquired = [p \in Procs |-> FALSE]
    /\ smartResult = [p \in Procs |-> "unset"]
    /\ reclaimMsg = [p \in Procs |-> "none"]
    /\ innerRan = [p \in Procs |-> FALSE]
    /\ staged = [p \in Procs |-> FALSE]
    /\ mergeCalls = [p \in Procs |-> 0]
    /\ ret = [p \in Procs |-> IF p = KilledHolder THEN "killed" ELSE "unset"]
    /\ crashes = 1
    /\ WorkerIdle
    /\ PoolIdle
    /\ OrchIdle
    /\ SmartIdle
    /\ ValIdle /\ DiscIdle

LiveNext ==
    \/ \E p \in Procs : Proc(p)
    \/ \E p \in Procs : Restart(p)
    \/ Tick

SpecLive ==
    /\ LiveInit
    /\ [][LiveNext]_vars
    /\ \A p \in Procs : WF_vars(Proc(p))
    /\ \A p \in Procs : WF_vars(Restart(p))
    /\ WF_vars(Tick)

(***************************************************************************)
(* SpecWorker: one worker call, no merge invocation running.               *)
(***************************************************************************)
WorkerSpecInit ==
    /\ WorkerInit
    /\ now = 0
    /\ lockFile = NoFile
    /\ worktreeExists = TRUE
    /\ alive = [q \in Procs |-> TRUE]
    /\ ProcInit
    /\ PoolIdle
    /\ OrchIdle
    /\ SmartIdle
    /\ ValIdle /\ DiscIdle

WorkerNext ==
    \/ WPreChecks
    \/ WAcquire
    \/ WConnect
    \/ WConflictCall
    \/ WFullCall

SpecWorker == WorkerSpecInit /\ [][WorkerNext]_vars

\* the lock part at rest: no invocation of merge_existing_build is modelled
LockIdle ==
    /\ now = 0
    /\ lockFile = NoFile
    /\ worktreeExists = TRUE
    /\ alive = [q \in Procs |-> TRUE]
    /\ ProcInit

(***************************************************************************)
(* SpecPool: one call of _run_parallel_merges, which may be cancelled.     *)
(***************************************************************************)
PoolSpecInit == LockIdle /\ WorkerIdle /\ PoolInit /\ OrchIdle /\ SmartIdle /\ ValIdle /\ DiscIdle

PoolNext ==
    \/ PoolCall
    \/ \E t \in DOMAIN pool.tasks : PoolPreChecks(t)
    \/ \E t \in DOMAIN pool.tasks : PoolAcquire(t)
    \/ \E t \in DOMAIN pool.tasks : PoolRelease(t)
    \/ PoolReturn
    \/ PoolCancel

SpecPool == PoolSpecInit /\ [][PoolNext]_vars

(***************************************************************************)
(* SpecOrch: one resolution of git conflicts, from the copy of the new     *)
(* files to the return of merge_existing_build.                            *)
(***************************************************************************)
OrchSpecInit == LockIdle /\ WorkerIdle /\ PoolIdle /\ OrchInit /\ SmartIdle /\ ValIdle /\ DiscIdle

OrchNext ==
    \/ ONewFiles
    \/ OCategorize
    \/ OSimpleMerges
    \/ OParallelMerges
    \/ ORemainingFiles
    \/ OInnerReturn
    \/ ODispatch

SpecOrch == OrchSpecInit /\ [][OrchNext]_vars

(***************************************************************************)
(* SpecSmart: one call of _try_smart_merge_inner and the dispatch on its   *)
(* result.                                                                 *)
(***************************************************************************)
SmartSpecInit ==
    LockIdle /\ WorkerIdle /\ PoolIdle /\ OrchIdle /\ SmartInit /\ ValIdle /\ DiscIdle

SmartNext ==
    \/ SCapture
    \/ SRefresh
    \/ SCheckGitConflicts
    \/ SResolve
    \/ SPreview
    \/ SDispatch
    \/ SFallback

SpecSmart == SmartSpecInit /\ [][SmartNext]_vars

(***************************************************************************)
(* SpecValidate: one call of _validate_merged_syntax.                      *)
(***************************************************************************)
ValSpecInit ==
    LockIdle /\ WorkerIdle /\ PoolIdle /\ OrchIdle /\ SmartIdle /\ ValInit /\ DiscIdle

ValNext == VValidate

SpecValidate == ValSpecInit /\ [][ValNext]_vars

(***************************************************************************)
(* SpecDiscard: one call of discard_existing_build.                        *)
(***************************************************************************)
DiscSpecInit ==
    LockIdle /\ WorkerIdle /\ PoolIdle /\ OrchIdle /\ SmartIdle /\ ValIdle
    /\ DiscInit

DiscNext ==
    \/ DStart
    \/ DConfirm
    \/ DRemove

SpecDiscard == DiscSpecInit /\ [][DiscNext]_vars


--------------------------------------------------------------------------
(***************************************************************************)
(* Claims about the merge lock and the entry point.                        *)
(***************************************************************************)
\* the lock file on disk is the one invocation p wrote
LockOf(p) == lockFile.kind = "data" /\ lockFile.pid = p

\* invocation p takes a step
Steps(p) == pc'[p] # pc[p]

\* C1: of two invocations that try to take the lock of the same spec at the
\* same time, never are both inside the with-block, and the one that does
\* not get the lock fails with MergeLockError (never with another exception
\* raised inside __enter__).
C1_ExactlyOneAcquires ==
    /\ \A p, q \in Procs :
          p # q => ~(pc[p] \in HoldingPcs /\ pc[q] \in HoldingPcs)
    /\ \A p \in Procs : ~(pc[p] = "raised" /\ ~innerRan[p])

\* C2: while an invocation is inside the with-block and the lock file on
\* disk is its own, no other invocation judges that lock stale and goes on
\* to remove it and take the lock, however long the pipeline runs.
C2_LiveHolderKeepsLock ==
    \A p, q \in Procs :
        (p # q /\ pc[p] \in HoldingPcs /\ LockOf(p))
            => ~(pc[q] = "enter_unlink" /\ reclaimMsg[q] = "stale")

\* C3: an invocation whose lock acquisition failed with MergeLockError runs
\* no merge step: it never calls manager.merge_worktree, never enters the
\* pipeline, stages nothing and returns False.
C3_BusyRunsNoMerge ==
    [][\A p \in Procs :
          (smartResult[p] = "lock_error" /\ Steps(p))
              => /\ mergeCalls'[p] = mergeCalls[p]
                 /\ innerRan'[p] = innerRan[p]
                 /\ staged'[p] = staged[p]
                 /\ ret'[p] \in {"unset", "false"}]_vars

C5_StaleLockReclaimed ==
    [][\A p \in Procs :
          /\ ( /\ pc[p] = "enter_read"
               /\ lockFile.kind = "data"
               /\ \/ now - lockFile.timestamp > MERGE_LOCK_TIMEOUT
                  \/ ~alive[lockFile.pid]
               /\ Steps(p) )
                 => pc'[p] = "enter_unlink" /\ lockFile' = lockFile
          /\ (pc[p] = "enter_unlink" /\ lockFile # NoFile /\ Steps(p))
                 => lockFile' = NoFile /\ pc'[p] = "enter_write"
          /\ (pc[p] = "enter_write" /\ pc'[p] = "inner")
                 => lockFile' = LockData(p, now') /\ acquired'[p]]_vars

\* an acquirer found a lock older than the timeout, removed it and now
\* holds a lock file with its own pid and the current time
C5_Witness ==
    \E p \in Procs :
        /\ pc[p] = "inner" /\ acquired[p]
        /\ reclaimMsg[p] = "stale"
        /\ lockFile = LockData(p, now)

OrphanLock == \E p \in Procs : pc[p] = "crashed" /\ LockOf(p)

\* an invocation has just taken the lock
Reacquired == \E q \in Procs : pc[q] = "inner" /\ acquired[q] /\ LockOf(q)

\* C7: a lock left by a killed holder does not block the spec forever: while
\* the merge is attempted again and again (which takes the worktree to be
\* still there), some attempt eventually takes the lock.
C7_OrphanLockReclaimed ==
    OrphanLock ~> (Reacquired \/ ~worktreeExists)

\* the killed holder's pid is alive again (reused), and an attempt has
\* reclaimed the lock by its age
C7_Witness ==
    \E q \in Procs :
        /\ pc[q] = "inner" /\ LockOf(q) /\ reclaimMsg[q] = "stale"
        /\ pc[KilledHolder] = "crashed" /\ alive[KilledHolder]

\* C8: without the worktree directory the entry point returns False at once:
\* that step touches neither the lock file nor the worktree nor the working
\* tree, calls no merge, and the invocation has then never taken the lock,
\* entered the pipeline or called manager.merge_worktree.
C8_NoBuildReturnsAtOnce ==
    [][\A p \in Procs :
          /\ (pc[p] = "start" /\ ~worktreeExists /\ Steps(p))
                 => /\ pc'[p] = "ret_no_build"
                    /\ ret'[p] = "false"
                    /\ lockFile' = lockFile
                    /\ worktreeExists' = worktreeExists
          /\ pc'[p] = "ret_no_build"
                 => /\ ~acquired'[p] /\ ~innerRan'[p] /\ ~staged'[p]
                    /\ mergeCalls'[p] = 0
                    /\ ~LockOf(p)']_vars

C8_Witness ==
    \E p \in Procs : pc[p] = "ret_no_build" /\ ret[p] = "false"


--------------------------------------------------------------------------
(***************************************************************************)
(* Claims about the worker.                                                *)
(***************************************************************************)
\* C9: when the main-side and the task-side text of a task are equal, the
\* worker makes no model call and what it returns is a success carrying
\* that text, with or without a base text and with or without a client.
C9_IdenticalSidesNeedNoModel ==
    task.main_content = task.worktree_content
        => /\ modelCalls = 0
           /\ wpc = "done"
                 => /\ result.success
                    /\ result.merged_content = task.main_content

\* C10: when git merge-file merged cleanly and the syntax check accepts the
\* merged text (the empty text included), the worker has returned that text
\* as an auto-merged success and makes no model call.
C10_CleanNativeMergeIsReturned ==
    ( /\ wpc \notin {"idle", "start"}
      /\ mergedContent # None
      /\ ~hasConflicts
      /\ ValidateMergedSyntax(task.file_path, mergedContent) )
        => /\ modelCalls = 0
           /\ wpc = "done"
           /\ result = ParallelMergeResult(mergedContent, TRUE, "None", TRUE)

\* C18: every result the worker returns carries a merged text exactly when
\* it is a success: no failed or skipped result carries a text and no
\* successful result lacks one.
C18_MergedTextIffSuccess ==
    wpc = "done" => ((result.merged_content # None) <=> result.success)

\* C23: an exception the model transport raises during a file's merge is
\* caught inside the worker and becomes a failed result for that file
\* whose error field carries the exception's message.
C23_TransportErrorBecomesFailedResult ==
    (wpc = "done" /\ transportError # "none")
        => /\ ~result.success
           /\ result.error = transportError

\* what the worker returns before it reaches the semaphore
IsPreCheckResult(r) ==
    \/ r.was_auto_merged
    \/ r.error \in {"Binary file - skipped", "File too large"}

\* C24: without a client (CLAUDE_CODE_OAUTH_TOKEN absent) the worker makes
\* no model call, and a file the native merge does not settle is decided
\* by the heuristic alone: one of the two sides as a success, or a failure.
C24_NoTokenNoModelCall ==
    ~clientAvailable
        => /\ modelCalls = 0
           /\ wpc \notin {"connect", "conflict_call", "full_call"}
           /\ (wpc = "done" /\ ~IsPreCheckResult(result))
                 => LET h == HeuristicMerge(task.main_content,
                                            task.worktree_content,
                                            task.base_content)
                    IN /\ result = ParallelMergeResult(h, Truthy(h),
                                       "AI unavailable, used heuristic", FALSE)
                       /\ h \in {None, task.main_content, task.worktree_content}
                       /\ result.success
                             => result.merged_content \in
                                   {task.main_content, task.worktree_content}

C24_Witness ==
    /\ ~clientAvailable
    /\ wpc = "done"
    /\ result.error = "AI unavailable, used heuristic"
    /\ result.success
    /\ result.merged_content = task.worktree_content
    /\ task.main_content # task.worktree_content


--------------------------------------------------------------------------
(***************************************************************************)
(* Claims about the batch of workers.                                      *)
(***************************************************************************)
\* the workers of the batch that are in the guarded section
Inside == { t \in DOMAIN pool.state : pool.state[t] = "inside" }

\* C13: during _run_parallel_merges, over any number of tasks, at most
\* MAX_PARALLEL_AI_MERGES (5) workers are inside the section guarded by the
\* semaphore at any moment.
C13_AtMostFiveInside == Cardinality(Inside) <= MAX_PARALLEL_AI_MERGES

C13_Witness ==
    /\ Cardinality(Inside) = MAX_PARALLEL_AI_MERGES
    /\ \E t \in DOMAIN pool.state : pool.state[t] = "waiting"

\* C14: _run_parallel_merges returns exactly one result per task, in the
\* order of the tasks: the i-th result is a result for the file path of the
\* i-th task, in whatever order the workers finished or failed.
C14_OneResultPerTaskInOrder ==
    pool.batch = "returned"
        => /\ Len(pool.returned) = Len(pool.tasks)
           /\ \A i \in DOMAIN pool.tasks :
                 /\ pool.returned[i].kind = "result"
                 /\ pool.returned[i].file_path = pool.tasks[i].file_path

C14_Witness ==
    /\ pool.batch = "returned"
    /\ Len(pool.returned) = NumTasks
    /\ pool.state[1] = "done_sem"
    /\ pool.state[2] = "raised"
    /\ pool.state[3] = "done_pre"

\* C15: an exception that leaves one worker does not end the batch and
\* touches no other worker, and in the returned list it is a failed result
\* for that worker's file only: every other entry is the result the
\* worker of that entry returned.
C15_ExceptionStaysWithItsFile ==
    [][ /\ \A t \in DOMAIN pool.state :
              (pool.state[t] # "raised" /\ pool'.state[t] = "raised")
                  => /\ pool'.batch = "gathering"
                     /\ \A u \in DOMAIN pool.state \ {t} :
                           pool'.state[u] = pool.state[u]
        /\ (pool.batch = "gathering" /\ pool'.batch = "returned")
              => \A i \in DOMAIN pool.tasks :
                    pool'.returned[i] =
                        IF pool.state[i] = "raised"
                        THEN [kind |-> "result",
                              file_path |-> pool.tasks[i].file_path,
                              merged_content |-> None, success |-> FALSE,
                              error |-> "str(result)"]
                        ELSE WorkerResult(pool.tasks[i].file_path) ]_vars

C15_Witness ==
    /\ pool.batch = "returned"
    /\ \E i \in DOMAIN pool.tasks :
          /\ pool.state[i] = "raised"
          /\ ~pool.returned[i].success
          /\ \E j \in DOMAIN pool.tasks :
                j > i /\ pool.state[j] = "done_sem"

\* C16: the semaphore gates the model section only.  Permits are held by
\* the workers inside that section and by no other; a worker before the
\* semaphore can always take its step, however many permits are out; the
\* step of the quick checks and the native merge takes no permit; and a
\* worker that returns from that step comes straight from the start.
C16_SemaphoreGatesModelCallsOnly ==
    /\ [](pool.batch = "gathering"
            => /\ pool.permits = MAX_PARALLEL_AI_MERGES - Cardinality(Inside)
               /\ \A t \in DOMAIN pool.state :
                     pool.state[t] = "start" => ENABLED PoolPreChecks(t))
    /\ [][ \A t \in DOMAIN pool.state :
              /\ (pool.state[t] = "start"
                     /\ pool'.state[t] \in {"waiting", "done_pre", "raised"})
                    => pool'.permits = pool.permits
              /\ (pool.state[t] # "done_pre" /\ pool'.state[t] = "done_pre")
                    => pool.state[t] = "start" ]_vars

C16_Witness ==
    /\ pool.batch = "gathering"
    /\ pool.permits = 0
    /\ \E t \in DOMAIN pool.state : pool.state[t] = "done_pre"

\* C17: when the batch is cancelled with workers in flight, every permit
\* is back, every worker that was in flight has been cancelled, and the
\* results of the workers that had finished are reported to the caller.
C17_CancelKeepsFinishedResults ==
    (pool.batch = "cancelled"
        /\ \E t \in DOMAIN pool.state : pool.state[t] = "cancelled")
        => /\ pool.permits = MAX_PARALLEL_AI_MERGES
           /\ \A t \in DOMAIN pool.state :
                 pool.state[t] \in PoolFinished \cup {"cancelled"}
           /\ \A t \in DOMAIN pool.state :
                 pool.state[t] \in PoolFinished
                    => /\ pool.returned # NoReturn
                       /\ pool.gathered[t] \in Range(pool.returned)

--------------------------------------------------------------------------
(***************************************************************************)
(* Claims about the resolution of git conflicts.                           *)
(***************************************************************************)
\* event i is a write of a path with the given status in the task's branch
WriteOf(i, status) ==
    /\ orch.events[i].op = "write"
    /\ orch.files[orch.events[i].path].status = status

\* C11: in the write/stage events of one merge, every path the task adds
\* is written and staged before any path the task modifies is written: no
\* write of a modified path precedes a write of an added path.
C11_NewFilesWrittenFirst ==
    \A i, j \in DOMAIN orch.events :
        (i < j /\ WriteOf(j, "A")) => ~WriteOf(i, "M")

\* C12: in the working-tree operations of one merge, deletions come last:
\* no unlink precedes a write of a new, modified or merged file.
C12_DeletionsAppliedLast ==
    \A i, j \in DOMAIN orch.events :
        (i < j /\ orch.events[j].op = "write") => orch.events[i].op # "unlink"

\* the results of the workers that are not a success
FailedResults == { r \in Range(orch.parallel_results) : ~r.success }

\* C19: a path whose worker result is a failure is neither written nor
\* staged: its working-tree content and its index entry stay as they were
\* before the merge, and the path is among the unresolved conflicts, with
\* the result's error as the reason, in every list that reports them.
C19_FailedFileUntouchedAndReported ==
    \A r \in FailedResults :
        /\ orch.tree[r.file_path] =
              (IF orch.files[r.file_path].main THEN "main" ELSE "absent")
        /\ r.file_path \notin orch.index
        /\ \A k \in DOMAIN orch.events : orch.events[k].path # r.file_path
        /\ Conflict(r.file_path, r.error) \in Range(orch.remaining_conflicts)
        /\ orch.phase \in {"after_smart", "returned"}
              => Conflict(r.file_path, r.error) \in Range(orch.smart_result.conflicts)

C19_Witness ==
    /\ orch.phase = "returned"
    /\ \E r \in FailedResults, q \in Range(orch.parallel_results) :
          /\ q.success
          /\ orch.tree[q.file_path] = "merged"
          /\ q.file_path \in orch.index

\* C20: with at least one conflicting file unresolved the merge stops
\* without committing: the resolution and the smart merge return a failure
\* that lists the unresolved paths, merge_existing_build returns False, no
\* standard git merge is run, the worktree and its branch are not removed,
\* and the task is not recorded as merged in the evolution and timeline
\* stores.
C20_PartialSuccessStops ==
    (orch.phase \in {"inner_return", "after_smart", "returned"}
        /\ orch.remaining_conflicts # <<>>)
        => /\ ~orch.resolution_result.success
           /\ orch.resolution_result.remaining_conflicts = orch.remaining_conflicts
           /\ orch.merge_worktree_calls = 0
           /\ ~orch.worktree_removed
           /\ ~orch.recorded
           /\ orch.phase \in {"after_smart", "returned"}
                 => /\ ~orch.smart_result.success
                    /\ orch.smart_result.conflicts = orch.remaining_conflicts
           /\ orch.phase = "returned" => orch.ret = "false"

C20_Witness ==
    /\ orch.phase = "returned"
    /\ orch.remaining_conflicts # <<>>
    /\ orch.resolved_files # <<>>
    /\ orch.index # {}

\* C21: on full success of a merge that resolved diverged files the task
\* is recorded as merged, and then the staged result is committed when
\* no_commit is false, and nothing is committed and the index stays staged
\* when no_commit is true.
C21_FullSuccessRecordsAndCommits ==
    (orch.phase = "returned" /\ orch.resolution_result.success
        /\ orch.ret = "true"
        /\ \E r \in Range(orch.parallel_results) : r.success)
        => /\ orch.recorded
           /\ ~orch.no_commit => orch.committed
           /\ orch.no_commit => (~orch.committed /\ orch.index # {})

\* C22: the evolution and timeline stores are marked with the completion
\* of the merge only after every resolved path has been written and
\* staged: no write or unlink follows the record, every resolved path is
\* in the index when the record is made, and no record is made when a
\* file is unresolved.
C22_RecordAfterStaging ==
    /\ orch.recorded <=> (\E k \in DOMAIN orch.events : orch.events[k] = RecordEvent)
    /\ \A k \in DOMAIN orch.events :
          orch.events[k] = RecordEvent
             => /\ k = Len(orch.events)
                /\ Range(orch.resolved_files) \subseteq orch.index
                /\ orch.remaining_conflicts = <<>>

C22_Witness ==
    /\ orch.recorded
    /\ Len(orch.events) >= 3
    /\ orch.events[Len(orch.events) - 1].op \in {"write", "unlink"}
    /\ \E r \in Range(orch.parallel_results) : r.success

\* C30: when the resolution reports full success, every path of the diff
\* between the task's branch and the merge base has been applied: each
\* added or modified path holds the task's or the merged content and is
\* staged, each deleted path is gone.
C30_SuccessMeansAllApplied ==
    (orch.phase \in {"inner_return", "after_smart", "returned"}
        /\ orch.resolution_result.success)
        => \A f \in Paths :
              IF orch.files[f].status = "D"
              THEN orch.tree[f] = "absent"
              ELSE orch.tree[f] \in {"worktree", "merged"} /\ f \in orch.index

--------------------------------------------------------------------------
(***************************************************************************)
(* Claims about conflict detection and the smart-merge pipeline.           *)
(***************************************************************************)
\* the detection has run
Detected == smart.phase \notin {"idle", "capture", "refresh", "check"}
            /\ smart.git_conflicts # None

\* the paths both sides changed
ChangedOnBothSides == {f \in Paths : smart.changed[f].main /\ smart.changed[f].spec}

\* C25: when git finds no merge base, the detection reports has_conflicts
\* with every path changed on both sides as conflicting, never "no
\* conflicts".
C25_NoMergeBaseAllConflicting ==
    (Detected /\ ~smart.merge_base /\ ChangedOnBothSides # {})
        => /\ smart.git_conflicts.has_conflicts
           /\ smart.git_conflicts.conflicting_files = ChangedOnBothSides

\* C26: every path the detection reports as conflicting was changed on both
\* sides since the merge base; a path the task branch left as it is in the
\* merge base is never reported.
C26_ConflictingChangedOnBothSides ==
    Detected =>
        \A f \in smart.git_conflicts.conflicting_files :
            smart.changed[f].main /\ smart.changed[f].spec

C26_Witness ==
    /\ Detected
    /\ smart.git_conflicts.has_conflicts
    /\ smart.git_conflicts.conflicting_files # {}
    /\ \E f, g \in Paths :
          /\ smart.changed[f].main /\ ~smart.changed[f].spec
          /\ smart.changed[g].spec /\ ~smart.changed[g].main
          /\ {f, g} \cap smart.git_conflicts.conflicting_files = {}

\* C28: when the pipeline inside the lock fails with an exception
\* (orchestrator construction, store refresh, preview), the invocation stops
\* there: its lock is released, it returns failure and it runs no further
\* merge step, in particular no standard git merge.
C28_PipelineFailureAborts ==
    [][ \A p \in Procs :
          (smartResult[p] = "none" /\ pc[p] \in {"after_smart", "fallback"})
              => /\ ~LockOf(p)
                 /\ mergeCalls'[p] = mergeCalls[p]
                 /\ ret'[p] \in {"unset", "false"} ]_vars

\* C29: a failure of a store operation (capture_worktree_state,
\* refresh_from_git, mark_task_completed, on_task_merged) is not fatal: when
\* nothing else raises, the pipeline still returns its result and the
\* exception handler of the pipeline is not taken.
C29_StoreFailureIsNonFatal ==
    (smart.phase \in {"after_smart", "fallback", "returned"}
     /\ smart.failed_store_ops # {}
     /\ smart.raised = "none")
        => smart.smart_result # "none"

--------------------------------------------------------------------------
(***************************************************************************)
(* Claims about the syntax validator.                                      *)
(***************************************************************************)
\* a tool or parser reported a syntax error in the content
DetectedSyntaxFailure ==
    LET ext == Lower(val.suffix) IN
    CASE ext \in {".ts", ".tsx"} ->
            \/ val.tsc.kind = "completed" /\ val.tsc.stdout = "error TS1005"
            \/ val.eslint.kind = "completed" /\ val.eslint.stdout = "Parsing error"
      [] ext \in {".js", ".jsx"} ->
            val.eslint.kind = "completed" /\ val.eslint.stdout = "Parsing error"
      [] ext \in {".py", ".json"} -> val.parse = "syntax_error"
      [] OTHER -> FALSE

\* the first tool the validator runs for the suffix
FirstRun == IF Lower(val.suffix) \in {".ts", ".tsx"} THEN val.tsc ELSE val.eslint

\* C27: the validator returns valid = false only when a syntax failure was
\* detected; it returns valid = true when the tool is missing, times out or
\* fails otherwise, when the parser raises any other exception, and for a
\* suffix without a checker.
C27_InvalidOnlyOnSyntaxFailure ==
    val.phase = "done" =>
        /\ val.result.kind = "returned"
        /\ ~val.result.valid => DetectedSyntaxFailure
        /\ (Lower(val.suffix) \in {".ts", ".tsx", ".js", ".jsx"}
            /\ FirstRun.kind = "raised") => val.result.valid
        /\ Lower(val.suffix) \notin {".ts", ".tsx", ".js", ".jsx", ".py", ".json"}
              => val.result.valid

--------------------------------------------------------------------------
(***************************************************************************)
(* Claims about discard_existing_build.                                    *)
(***************************************************************************)
\* the user typed exactly the word delete and nothing else
TypedLiteralDelete == disc.typed = Line("", "delete", "")

\* C31: the worktree is removed only when the confirmation input is the
\* literal string delete; for every other input (other case, padding, an
\* interrupt) the worktree and its branch stay and the call returns false.
C31_DiscardOnlyOnLiteralDelete ==
    [][ (~TypedLiteralDelete /\ disc.typed.kind \in {"line", "KeyboardInterrupt"})
          => /\ disc'.worktree = disc.worktree
             /\ disc'.branch = disc.branch
             /\ disc'.phase = "returned" => disc'.ret = "false" ]_vars

--------------------------------------------------------------------------
(***************************************************************************)
(* Claims about the outcomes of one worker.                                *)
(***************************************************************************)
\* lines 745-751: the orchestrator appends a result that is not a success
\* to remaining_conflicts, and with one entry there the merge reports
\* unresolved conflicts (lines 761-766)
BecomesRemainingConflict(r) == ~ResultIsWritten(r)

\* C32: a task whose path has a binary extension is skipped before any
\* native merge, permit acquisition or model call, and that skip does not
\* by itself make the whole merge report unresolved conflicts.
C32_BinaryIsSkippedNotUnresolved ==
    (wpc = "done" /\ IsBinaryFile(task.file_path))
        => /\ mergedContent = None
           /\ permits = MAX_PARALLEL_AI_MERGES
           /\ modelCalls = 0
           /\ ~result.success /\ result.merged_content = None
           /\ ~BecomesRemainingConflict(result)

\* the number of lines of a text
LinesOf(content) ==
    IF ~Truthy(content) THEN 0
    ELSE IF content.body \in UnterminatedBodies THEN content.newlines + 1
    ELSE content.newlines

\* the worker returned the result of a file that is too large
SkippedAsTooLarge == wpc = "done" /\ result.error = "File too large"

\* C33: a task is skipped as too large exactly when the main-side or the
\* task-side text has more than 5000 lines; 5000 lines are processed, 5001
\* lines are skipped whether or not the last line ends with a newline.
C33_TooLargeAbove5000Lines ==
    (wpc # "start" /\ ~IsBinaryFile(task.file_path))
        => ( SkippedAsTooLarge
               <=> Max(LinesOf(task.main_content), LinesOf(task.worktree_content))
                     > MAX_FILE_LINES_FOR_AI )

\* C34: every successful result of the worker carries a body that the
\* syntax validator accepted, whichever step produced it (native merge,
\* conflict-only call, full-file call, heuristic).
C34_SuccessBodyWasValidated ==
    (wpc = "done" /\ result.success)
        => /\ result.merged_content # None
           /\ ValidateMergedSyntax(task.file_path, result.merged_content)

\* the full-file call has just produced a body that the validator rejects
FullCallBodyRejected ==
    /\ wpc = "full_call"
    /\ modelCalls' = modelCalls + 1
    /\ Truthy(merged')
    /\ ~ValidateMergedSyntax(task.file_path, merged')

\* C35: when the body extracted in the full-file step fails validation, the
\* worker makes one corrective retry call before it returns: it does not
\* return from the step that got the rejected body, and it never makes more
\* than one call after it.
C35_OneRetryAfterInvalidBody ==
    [][ /\ FullCallBodyRejected => wpc' # "done"
        /\ (wpc = "done") => modelCalls' = modelCalls ]_vars

\* the worker returned what _heuristic_merge gave it for want of a client
DecidedByHeuristic ==
    wpc = "done" /\ result.error = "AI unavailable, used heuristic"

\* C36: the heuristic returns a side's text only when the other side made
\* no change against the base (main unchanged gives the task text, task
\* unchanged gives the main text); in every other case, both sides changed
\* and no base included, it yields no text and the file is failed.
C36_HeuristicPicksOnlyUnchangedSide ==
    (DecidedByHeuristic /\ task.main_content # task.worktree_content) =>
        LET h == result.merged_content IN
        /\ result.success => h # None
        /\ h # None =>
             /\ task.base_content # None
             /\ \/ task.main_content = task.base_content /\ h = task.worktree_content
                \/ task.worktree_content = task.base_content /\ h = task.main_content

\* exactly one side differs from the base text
ExactlyOneSideChanged ==
    /\ task.base_content # None
    /\ (task.main_content = task.base_content)
          # (task.worktree_content = task.base_content)

\* the worker had a client and returned because no model step gave it a
\* valid body
ModelStepsFailed ==
    /\ wpc = "done"
    /\ clientAvailable
    /\ result.error \in {"AI could not merge file", ExceptionMessage}

\* C37: the heuristic is reached when the model is unavailable and also when
\* the model is available but no model step yields a valid body; in both
\* cases a file with exactly one side changed against the base is resolved
\* to that side and not failed.
C37_HeuristicAfterModelFailure ==
    LET h == HeuristicMerge(task.main_content, task.worktree_content,
                            task.base_content) IN
    ((DecidedByHeuristic \/ ModelStepsFailed) /\ ExactlyOneSideChanged /\ Truthy(h))
        => /\ result.success
           /\ result.merged_content = h

--------------------------------------------------------------------------
(***************************************************************************)
(* Further claims about the resolution of git conflicts.                   *)
(***************************************************************************)
\* C38: once the resolution has written and staged its results and reported
\* full success, merge_existing_build runs no standard git merge of the
\* worktree on top of them, whatever the numbers of AI-merged and git
\* auto-merged files (zero AI-merged files included).
C38_NoSecondMergeAfterStagedSuccess ==
    (orch.phase = "returned"
        /\ orch.resolution_result.success
        /\ orch.resolved_files # <<>>
        /\ Range(orch.resolved_files) \subseteq orch.index)
        => orch.merge_worktree_calls = 0

--------------------------------------------------------------------------
(***************************************************************************)
(* A further claim about the merge lock.                                   *)
(***************************************************************************)
\* invocation p leaves __exit__ by its unlink (it was not killed there)
Releases(p) == pc[p] = "exit_unlink" /\ Steps(p) /\ pc'[p] # "crashed"

\* C39: releasing a MergeLock never removes a lock file that belongs to
\* another holder: when the lock of p was reclaimed as stale by q while p
\* was still running, the release of p leaves the lock file of q in place.
C39_ReleaseKeepsOthersLock ==
    [][\A p \in Procs :
          ( /\ Releases(p)
            /\ lockFile.kind = "data"
            /\ lockFile.pid # p
            /\ reclaimMsg[lockFile.pid] = "stale" )
              => lockFile' = lockFile]_vars

--------------------------------------------------------------------------
(***************************************************************************)
(* The partition of the conflicting paths.                                 *)
(***************************************************************************)
\* how often path f is in the list
Occurrences(list, f) == Cardinality({k \in DOMAIN list : list[k] = f})

\* the paths of the entries of remaining_conflicts
RemainingPaths == {orch.remaining_conflicts[k].file : k \in DOMAIN orch.remaining_conflicts}

\* C40: when _resolve_git_conflicts_with_ai returns, every conflicting path
\* that exists on at least one side is in exactly one of resolved_files and
\* remaining_conflicts, no path is twice in resolved_files, and success is
\* reported if and only if remaining_conflicts is empty.
C40_ConflictingPathsPartitioned ==
    orch.phase \in {"inner_return", "after_smart", "returned"} =>
        /\ \A f \in Paths :
              (orch.files[f].conflicting
               /\ (orch.files[f].main \/ orch.files[f].worktree))
                  => (f \in Range(orch.resolved_files)) # (f \in RemainingPaths)
        /\ \A f \in Paths : Occurrences(orch.resolved_files, f) <= 1
        /\ orch.resolution_result.success <=> orch.remaining_conflicts = <<>>

\* a resolution ended with one conflicting path resolved, another one
\* unresolved, and a new file of the task copied
C40_Witness ==
    /\ orch.phase = "returned"
    /\ ~orch.resolution_result.success
    /\ \E f, g, n \in Paths :
          /\ orch.files[f].conflicting /\ f \in Range(orch.resolved_files)
          /\ orch.files[g].conflicting /\ g \in RemainingPaths
          /\ IsNewFile(orch.files[n]) /\ n \in Range(orch.resolved_files)

==========================================================================
